---------------------------- MODULE Spec2Model ----------------------------
(***************************************************************************)
(* Model of src/channels/mod.rs of sonic-channel: SonicStream, its framed  *)
(* write/read primitives, run_command, connect, start and                  *)
(* connect_with_start, together with the TCP peer it talks to.             *)
(*                                                                         *)
(* Inbound data is a sequence of symbols.  Every symbol stands for one     *)
(* unit of the byte stream: "NL" is the line terminator, "C" a text that   *)
(* begins with the greeting token CONNECTED, "S1"/"S2" the text of a start *)
(* response, "J" any other text.  Buffer capacities are counted in the     *)
(* same units.  Outbound messages are described by their length in bytes.  *)
(***************************************************************************)
EXTENDS Integers, Sequences, FiniteSets, TLC

(* ---------------------------------------------------------------------- *)
(* Program constants                                                       *)
(* ---------------------------------------------------------------------- *)
DEFAULT_SONIC_PROTOCOL_VERSION == 1

(* Variant: the channel is constructed with another buffer size. *)
HalfTheBufferSize == 200 \div 2

UNINITIALIZED_MODE_MAX_BUFFER_SIZE == 200

(* ---------------------------------------------------------------------- *)
(* Bounds of the model                                                     *)
(* ---------------------------------------------------------------------- *)
MaxServerSends == 3      \* chunks the peer sends over the connection
MaxDispatches == 2       \* run_command calls made by users of a Ready channel
MaxRestarts == 1         \* start calls made on the channel after the handshake

Procs == {"main", "aux"} \* tasks holding a shared reference to the channel
Main == "main"           \* the task that runs connect_with_start

None == "None"
Ok == "Ok"

(* ChannelMode and ChannelMode::to_str *)
ChannelMode == {"search", "ingest"}

ModeName(m) == IF m = "search" THEN <<"s","e","a","r","c","h">>
                               ELSE <<"i","n","g","e","s","t">>

(* Lengths of the credentials tried: "SecretPassword" and a long one. *)
PasswordLens == {14, 185}

(* The commands users dispatch: the length of the message and the        *)
(* READ_LINES_COUNT of each.                                               *)
UserCommands == { [len |-> 2, lines |-> 1], [len |-> 150, lines |-> 2] }

(* What one write on the socket may accept short of everything offered. *)
PartialWrites == {100}

(* Start responses the peer can send: symbol -> the values it encodes. *)
StartSymbols == {"S1", "S2"}

Encoded(s) ==
    IF s = "S1"
    THEN [mode |-> "search", protocol_version |-> 1, max_buffer_size |-> 20000]
    ELSE [mode |-> "ingest", protocol_version |-> 2, max_buffer_size |-> 2]

(* Chunks the peer sends: whole lines, and text with no terminator. *)
ServerChunks ==
    { <<"C", "NL">>, <<"S1", "NL">>, <<"S2", "NL">>, <<"J", "NL">>, <<"J">>,
      <<"J", "NL", "J", "NL">> }

VARIABLES
    req,                \* arguments of connect_with_start: mode and password
                        \* (pwlen 0 once the password is moved into start)
    phase,              \* progress of connect_with_start
    cwsResult,          \* what connect_with_start returned
    chan,               \* the SonicStream value: "none", "live", "dropped"
    mode,               \* SonicStream.mode
    max_buffer_size,    \* SonicStream.max_buffer_size
    protocol_version,   \* SonicStream.protocol_version
    rx,                 \* data sent by the peer and not yet read from the socket
    peerClosed,         \* the peer has closed its side of the stream
    fr,                 \* per task: the frame of the call in progress
    sends,              \* chunks sent by the peer so far
    dispatches,         \* user dispatches issued so far
    restarts,           \* calls of start made after the handshake
    startCalls,         \* calls of start made so far
    lastStart,          \* result of the latest call of start
    connectResult,      \* what connect returned
    connectRead,        \* what channel.read(1) returned to connect
    greeting,           \* the text connect read, when its read succeeded
    startMessage,       \* the text handed to decode by the latest start
    prev,               \* per task: how its previous dispatch ended
    lost                \* inbound data was discarded with a dropped BufReader

vars == << req, phase, cwsResult, chan, mode, max_buffer_size, protocol_version,
           rx, peerClosed, fr, sends, dispatches, restarts,
           startCalls, lastStart, connectResult, connectRead, greeting,
           startMessage, prev, lost >>

cwsVars == << req, phase, cwsResult, chan >>
connVars == << mode, max_buffer_size, protocol_version >>
netVars == << rx, peerClosed >>
histVars == << startCalls, lastStart, connectResult, connectRead, greeting,
              startMessage, prev >>

(* ---------------------------------------------------------------------- *)
(* Commands (the StreamCommand capability)                                 *)
(* ---------------------------------------------------------------------- *)
NoCmd == [kind |-> "none", mode |-> None, len |-> 0, lines |-> 0]
NoResponse == [mode |-> None, protocol_version |-> 0, max_buffer_size |-> 0]

(* StartCommand::message: "START <mode> <password>\r\n" *)
StartMessageLen(m, pwlen) == Len(<<"S","T","A","R","T"," ">>) + Len(ModeName(m)) + 1 + pwlen + 2

StartCommand(m, pwlen) ==
    [kind |-> "START", mode |-> m, len |-> StartMessageLen(m, pwlen), lines |-> 1]

UserCommand(c) ==
    [kind |-> "CMD", mode |-> None, len |-> c.len, lines |-> c.lines]

(* StreamCommand::receive.  START: the text must begin with a start       *)
(* response that confirms the requested mode.  Other commands: the text   *)
(* must begin with the reply they expect.                                  *)
Receive(cmd, message) ==
    IF cmd.kind = "START"
    THEN IF /\ message # << >>
            /\ message[1] \in StartSymbols
            /\ Encoded(message[1]).mode = cmd.mode
         THEN [result |-> Ok, response |-> Encoded(message[1])]
         ELSE [result |-> "DecodeFailure", response |-> NoResponse]
    ELSE IF message # << >> /\ message[1] = "J"
         THEN [result |-> Ok, response |-> NoResponse]
         ELSE [result |-> "DecodeFailure", response |-> NoResponse]

(* ---------------------------------------------------------------------- *)
(* Frames: the locals of the call a task is running                       *)
(* ---------------------------------------------------------------------- *)
IdleFrame ==
    [ pc |-> "idle", ctx |-> "none", cmd |-> NoCmd,
      wcap |-> 0, wrem |-> 0, wbuf |-> 0, delivered |-> 0,
      rcap |-> 0, rbuf |-> << >>, message |-> << >>,
      lines_read |-> 0, max_read_lines |-> 0,
      wres |-> "pending", rres |-> "pending", result |-> "pending",
      response |-> NoResponse,
      readPolls |-> 0, eof |-> FALSE, decodeCalled |-> FALSE ]

(* A task is at a local step when what it does next involves no call on  *)
(* the socket: the code between two suspension points of a future runs    *)
(* without any other step in between.                                      *)
Local(p) ==
    \/ fr[p].pc \in {"connret", "decode", "done"}
    \/ fr[p].pc = "write" /\ fr[p].wrem < fr[p].wcap
    \/ fr[p].pc = "read" /\ fr[p].rbuf # << >>

Settled == phase # "connected" /\ \A p \in Procs : ~Local(p)

TypeOK ==
    /\ phase \in {"init", "connecting", "connected", "starting", "ready", "failed"}
    /\ chan \in {"none", "live", "dropped"}
    /\ mode \in ChannelMode \cup {None}
    /\ max_buffer_size \in Nat
    /\ protocol_version \in Nat
    /\ peerClosed \in BOOLEAN
    /\ lost \in BOOLEAN
    /\ \A p \in Procs : fr[p].pc \in {"idle", "write", "read", "connret", "decode", "done"}

Init ==
    /\ req \in [mode : ChannelMode, pwlen : PasswordLens]
    /\ phase = "init"
    /\ cwsResult = "pending"
    /\ chan = "none"
    /\ mode = None
    /\ max_buffer_size = 0
    /\ protocol_version = 0
    /\ rx = << >>
    /\ peerClosed = FALSE
    /\ fr = [p \in Procs |-> IdleFrame]
    /\ sends = 0
    /\ dispatches = 0
    /\ restarts = 0
    /\ startCalls = 0
    /\ lastStart = "none"
    /\ connectResult = "pending"
    /\ connectRead = "pending"
    /\ greeting = << >>
    /\ startMessage = << >>
    /\ prev = [p \in Procs |-> "none"]
    /\ lost = FALSE

(* ---------------------------------------------------------------------- *)
(* The peer and the network                                                *)
(* ---------------------------------------------------------------------- *)
ServerSend(chunk) ==
    /\ Settled
    /\ chan = "live"
    /\ ~peerClosed
    /\ sends < MaxServerSends
    /\ rx' = rx \o chunk
    /\ sends' = sends + 1
    /\ UNCHANGED << cwsVars, connVars, peerClosed, fr, dispatches,
                    restarts, histVars, lost >>

ServerClose ==
    /\ Settled
    /\ chan = "live"
    /\ ~peerClosed
    /\ peerClosed' = TRUE
    /\ UNCHANGED << cwsVars, connVars, rx, fr, sends, dispatches,
                    restarts, histVars, lost >>

(* ---------------------------------------------------------------------- *)
(* SonicStream::run_command: what follows the write and the read           *)
(* ---------------------------------------------------------------------- *)
(* Variants: the failure of the write is not propagated; the read is    *)
(* left out.                                                               *)
AfterWriteIgnoringFailure(wres) == "read"

AfterWriteSkippingRead(wres) == IF wres = Ok THEN "decode" ELSE "done"

AfterWrite(wres) == IF wres = Ok THEN "read" ELSE "done"

(* Variant: the text read is not handed to the command. *)
AfterReadSkippingDecode(rres) == "done"

AfterRead(rres) == IF rres = Ok THEN "decode" ELSE "done"

(* ---------------------------------------------------------------------- *)
(* SonicStream::read                                                       *)
(* ---------------------------------------------------------------------- *)
FirstNL(buf) ==
    IF \E i \in 1..Len(buf) : buf[i] = "NL"
    THEN CHOOSE i \in 1..Len(buf) : buf[i] = "NL" /\ \A j \in 1..(i-1) : buf[j] # "NL"
    ELSE 0

(* read_line over the reader's buffer `buf`: take the text up to and      *)
(* including the first terminator, which completes the line; with no      *)
(* terminator take everything and go on reading.                           *)
ConsumeLine(f, buf) ==
    LET k == FirstNL(buf) IN
    IF k > 0
    THEN [f EXCEPT !.message = @ \o SubSeq(buf, 1, k),
                   !.rbuf = SubSeq(buf, k + 1, Len(buf)),
                   !.lines_read = @ + 1]
    ELSE [f EXCEPT !.message = @ \o buf, !.rbuf = << >>]

(* read_line at end of stream returns Ok(0): the loop counts it as a line. *)
EndOfStream(f) == [f EXCEPT !.lines_read = @ + 1, !.eof = TRUE]

(* Where the frame goes when read returns `rres`: connect takes the       *)
(* result itself, run_command goes on to decode or returns the failure.   *)
ReadReturn(f, rres) ==
    [f EXCEPT !.rres = rres,
              !.rbuf = << >>,
              !.pc = IF f.ctx = "connect" THEN "connret" ELSE AfterRead(rres),
              !.result = IF f.ctx # "connect" /\ rres # Ok THEN rres ELSE @]

(* Variant: one line more than asked for is read. *)
ReadLoopOneMore(f) ==
    IF f.lines_read <= f.max_read_lines THEN f ELSE ReadReturn(f, Ok)

(* The loop test of read, taken after every line. *)
ReadLoop(f) ==
    IF f.lines_read < f.max_read_lines THEN f ELSE ReadReturn(f, Ok)

(* Variant: the reader always has the capacity of an unstarted channel. *)
BeginReadDefaultCap(f, n, cap) ==
    ReadLoop([f EXCEPT !.pc = "read", !.rcap = UNINITIALIZED_MODE_MAX_BUFFER_SIZE,
                       !.rbuf = << >>, !.message = << >>, !.lines_read = 0,
                       !.max_read_lines = n])

(* BufReader::with_capacity(self.max_buffer_size, &self.stream) *)
BeginRead(f, n, cap) ==
    ReadLoop([f EXCEPT !.pc = "read", !.rcap = cap, !.rbuf = << >>,
                       !.message = << >>, !.lines_read = 0,
                       !.max_read_lines = n])

(* One poll of read_line that finds data in the reader's buffer. *)
ReadBuffered(p) ==
    /\ fr[p].pc = "read"
    /\ fr[p].rbuf # << >>
    /\ LET g == ConsumeLine([fr[p] EXCEPT !.readPolls = @ + 1], fr[p].rbuf)
           h == ReadLoop(g)
       IN /\ fr' = [fr EXCEPT ![p] = h]
          /\ lost' = (lost \/ (h.pc # "read" /\ g.rbuf # << >>))
    /\ UNCHANGED << cwsVars, connVars, netVars, sends, dispatches, restarts,
                    histVars >>

(* One poll of read_line that reads the socket: up to the capacity of the *)
(* reader is taken from what has arrived.                                  *)
ReadSocket(p) ==
    /\ Settled
    /\ fr[p].pc = "read"
    /\ fr[p].rbuf = << >>
    /\ rx # << >>
    /\ \E n \in 1..Len(rx) :
         /\ n <= fr[p].rcap
         /\ LET g == ConsumeLine([fr[p] EXCEPT !.readPolls = @ + 1], SubSeq(rx, 1, n))
                h == ReadLoop(g)
            IN /\ fr' = [fr EXCEPT ![p] = h]
               /\ lost' = (lost \/ (h.pc # "read" /\ g.rbuf # << >>))
         /\ rx' = SubSeq(rx, n + 1, Len(rx))
    /\ UNCHANGED << cwsVars, connVars, peerClosed, sends, dispatches,
                    restarts, histVars >>

ReadEof(p) ==
    /\ Settled
    /\ fr[p].pc = "read"
    /\ fr[p].rbuf = << >>
    /\ rx = << >>
    /\ peerClosed
    /\ fr' = [fr EXCEPT ![p] = ReadLoop(EndOfStream([fr[p] EXCEPT !.readPolls = @ + 1]))]
    /\ UNCHANGED << cwsVars, connVars, netVars, sends, dispatches, restarts,
                    histVars, lost >>

(* One poll of read_line in which the read of the socket fails. *)
ReadError(p) ==
    /\ Settled
    /\ fr[p].pc = "read"
    /\ fr[p].rbuf = << >>
    /\ fr' = [fr EXCEPT ![p] = ReadReturn([fr[p] EXCEPT !.readPolls = @ + 1], "ReadStream")]
    /\ UNCHANGED << cwsVars, connVars, netVars, sends, dispatches, restarts,
                    histVars, lost >>

(* ---------------------------------------------------------------------- *)
(* SonicStream::write                                                      *)
(* ---------------------------------------------------------------------- *)
(* What one write on the socket accepts of `r` bytes offered. *)
Accepts(r) == {r} \cup {k \in PartialWrites : k < r}

(* Where the frame goes when write returns `wres`.  The writer is dropped *)
(* here, and with it whatever its buffer holds.  run_command then starts  *)
(* read(SC::READ_LINES_COUNT).                                             *)
WriteReturn(f, wres) ==
    LET g == [f EXCEPT !.wres = wres,
                       !.wrem = 0,
                       !.wbuf = 0,
                       !.pc = AfterWrite(wres),
                       !.result = IF wres # Ok THEN wres ELSE @]
    IN IF g.pc = "read" THEN BeginRead(g, g.cmd.lines, max_buffer_size) ELSE g

(* The loop of write_all, taken after every poll_write. *)
WriteLoop(f) == IF f.wrem > 0 THEN f ELSE WriteReturn(f, Ok)

(* BufWriter::with_capacity(self.max_buffer_size, &self.stream) and the   *)
(* call of write_all(message.as_bytes()).                                  *)
BeginWrite(cmd, ctx, cap) ==
    WriteLoop([IdleFrame EXCEPT !.pc = "write", !.ctx = ctx, !.cmd = cmd,
                                !.wcap = cap, !.wrem = cmd.len])

(* poll_write of less than the capacity: the data goes to the buffer of   *)
(* the writer.                                                             *)
WriteBuffered(p) ==
    /\ fr[p].pc = "write"
    /\ fr[p].wbuf + fr[p].wrem <= fr[p].wcap
    /\ fr[p].wrem < fr[p].wcap
    /\ fr' = [fr EXCEPT ![p] = WriteLoop([fr[p] EXCEPT !.wbuf = @ + fr[p].wrem,
                                                         !.wrem = 0])]
    /\ UNCHANGED << cwsVars, connVars, netVars, sends, dispatches, restarts,
                    histVars, lost >>

(* poll_write of at least the capacity: the data goes to the socket,      *)
(* which takes all or part of it; `delivered` counts what the stream has  *)
(* taken of the message.                                                   *)
WriteSocket(p) ==
    /\ Settled
    /\ fr[p].pc = "write"
    /\ fr[p].wrem >= fr[p].wcap
    /\ \E n \in Accepts(fr[p].wrem) :
         /\ fr' = [fr EXCEPT ![p] = WriteLoop([fr[p] EXCEPT !.wrem = @ - n,
                                                              !.delivered = @ + n])]
    /\ UNCHANGED << cwsVars, connVars, netVars, sends, dispatches,
                    restarts, histVars, lost >>

(* poll_write of at least the capacity in which the write on the socket  *)
(* fails.                                                                  *)
WriteError(p) ==
    /\ Settled
    /\ fr[p].pc = "write"
    /\ fr[p].wrem >= fr[p].wcap
    /\ fr' = [fr EXCEPT ![p] = WriteReturn(fr[p], "WriteToStream")]
    /\ UNCHANGED << cwsVars, connVars, netVars, sends, dispatches, restarts,
                    histVars, lost >>

(* command.receive(message), the last step of run_command *)
Decode(p) ==
    /\ fr[p].pc = "decode"
    /\ LET r == Receive(fr[p].cmd, fr[p].message)
       IN fr' = [fr EXCEPT ![p].pc = "done",
                           ![p].decodeCalled = TRUE,
                           ![p].result = r.result,
                           ![p].response = r.response]
    /\ UNCHANGED << cwsVars, connVars, netVars, sends, dispatches, restarts,
                    histVars, lost >>

(* How a dispatch that has returned ended: with a failure of the write   *)
(* or of a read, or with all, or not all, of its line reads made.         *)
Ended(f) ==
    IF f.result \in {"WriteToStream", "ReadStream"} THEN "failed"
    ELSE IF f.wres = Ok /\ f.lines_read = f.cmd.lines THEN "complete"
    ELSE "incomplete"

(* ---------------------------------------------------------------------- *)
(* SonicStream::connect                                                    *)
(* ---------------------------------------------------------------------- *)
(* Variant: the greeting is not examined. *)
AnyGreeting(message) == TRUE

(* message.starts_with("CONNECTED") *)
StartsWithConnected(message) == message # << >> /\ message[1] = "C"

(* <Async<TcpStream>>::connect(addr), the construction of the channel and *)
(* the call of channel.read(1).                                            *)
TcpConnect(ok) ==
    /\ phase = "init"
    /\ IF ok
       THEN /\ phase' = "connecting"
            /\ chan' = "live"
            /\ mode' = None
            /\ max_buffer_size' = UNINITIALIZED_MODE_MAX_BUFFER_SIZE
            /\ protocol_version' = DEFAULT_SONIC_PROTOCOL_VERSION
            /\ fr' = [fr EXCEPT ![Main] =
                        BeginRead([IdleFrame EXCEPT !.ctx = "connect"], 1,
                                  UNINITIALIZED_MODE_MAX_BUFFER_SIZE)]
            /\ UNCHANGED << cwsResult, connectResult >>
       ELSE /\ phase' = "failed"
            /\ cwsResult' = "ConnectToServer"
            /\ connectResult' = "ConnectToServer"
            /\ UNCHANGED << chan, connVars, fr >>
    /\ UNCHANGED << req, netVars, sends, dispatches, restarts, startCalls,
                    lastStart, connectRead, greeting, startMessage, prev, lost >>

(* What connect returns once channel.read(1) has returned `rres`. *)
ConnectReturn(rres, message) ==
    IF rres # Ok THEN rres
    ELSE IF StartsWithConnected(message) THEN Ok ELSE "ConnectToServer"

(* The rest of connect, and the `?` of connect_with_start on its result. *)
ConnectFinish ==
    /\ fr[Main].pc = "connret"
    /\ LET res == ConnectReturn(fr[Main].rres, fr[Main].message)
       IN /\ connectResult' = res
          /\ connectRead' = fr[Main].rres
          /\ greeting' = IF fr[Main].rres = Ok THEN fr[Main].message ELSE greeting
          /\ phase' = IF res = Ok THEN "connected" ELSE "failed"
          /\ cwsResult' = IF res = Ok THEN cwsResult ELSE res
          /\ chan' = IF res = Ok THEN chan ELSE "dropped"
    /\ fr' = [fr EXCEPT ![Main] = IdleFrame]
    /\ UNCHANGED << req, connVars, netVars, sends, dispatches, restarts,
                    startCalls, lastStart, startMessage, prev, lost >>

(* ---------------------------------------------------------------------- *)
(* SonicStream::start                                                      *)
(* ---------------------------------------------------------------------- *)
(* Variant: start does not look at the mode already set. *)
StartGuardOff(m) == FALSE

(* self.mode.is_some() *)
StartGuard(m) == m # None

(* Variant: buffer size and protocol version are exchanged. *)
AdoptExchanged(response) ==
    << response.mode, response.protocol_version, response.max_buffer_size >>

(* Variant: only the mode of the response is adopted. *)
AdoptModeOnly(response) ==
    << response.mode, UNINITIALIZED_MODE_MAX_BUFFER_SIZE,
       DEFAULT_SONIC_PROTOCOL_VERSION >>

(* The three assignments that follow a successful dispatch. *)
Adopt(response) ==
    << response.mode, response.max_buffer_size, response.protocol_version >>

(* Variant: the result of start is not propagated. *)
CwsReturnIgnoringStart(res) == Ok

(* What connect_with_start returns once start has returned `res`. *)
CwsReturn(res) == IF res = Ok THEN Ok ELSE res

(* channel.start(mode, password) in connect_with_start *)
CwsStart ==
    /\ phase = "connected"
    /\ startCalls' = startCalls + 1
    /\ IF StartGuard(mode)
       THEN /\ lastStart' = "RunCommand"
            /\ phase' = "failed"
            /\ cwsResult' = "RunCommand"
            /\ chan' = "dropped"
            /\ UNCHANGED fr
       ELSE /\ lastStart' = "pending"
            /\ phase' = "starting"
            /\ fr' = [fr EXCEPT ![Main] =
                        BeginWrite(StartCommand(req.mode, req.pwlen), "start",
                                   max_buffer_size)]
            /\ UNCHANGED << cwsResult, chan >>
    /\ req' = [req EXCEPT !.pwlen = 0]
    /\ UNCHANGED << connVars, netVars, sends, dispatches, restarts,
                    connectResult, connectRead, greeting, startMessage, prev, lost >>

(* start called on the channel after connect_with_start has returned it.  *)
(* It borrows the channel exclusively: no dispatch is in progress.        *)
Restart(p, m, pwlen) ==
    /\ Settled
    /\ phase = "ready"
    /\ restarts < MaxRestarts
    /\ \A q \in Procs : fr[q].pc = "idle"
    /\ restarts' = restarts + 1
    /\ startCalls' = startCalls + 1
    /\ IF StartGuard(mode)
       THEN /\ lastStart' = "RunCommand"
            /\ UNCHANGED fr
       ELSE /\ lastStart' = "pending"
            /\ fr' = [fr EXCEPT ![p] =
                        BeginWrite(StartCommand(m, pwlen), "restart", max_buffer_size)]
    /\ UNCHANGED << cwsVars, connVars, netVars, sends, dispatches,
                    connectResult, connectRead, greeting, startMessage, prev, lost >>

(* The rest of start once run_command has returned, and for the start of  *)
(* connect_with_start the return of the channel or of the failure.        *)
StartFinish(p) ==
    /\ fr[p].pc = "done"
    /\ fr[p].ctx \in {"start", "restart"}
    /\ LET res == fr[p].result
       IN /\ lastStart' = res
          /\ startMessage' = IF fr[p].decodeCalled THEN fr[p].message ELSE << >>
          /\ LET new == IF res = Ok THEN Adopt(fr[p].response) ELSE connVars
             IN /\ mode' = new[1]
                /\ max_buffer_size' = new[2]
                /\ protocol_version' = new[3]
          /\ IF fr[p].ctx = "start"
             THEN /\ cwsResult' = CwsReturn(res)
                  /\ phase' = IF CwsReturn(res) = Ok THEN "ready" ELSE "failed"
                  /\ chan' = IF CwsReturn(res) = Ok THEN chan ELSE "dropped"
             ELSE UNCHANGED << cwsResult, phase, chan >>
    /\ prev' = [prev EXCEPT ![p] = Ended(fr[p])]
    /\ fr' = [fr EXCEPT ![p] = IdleFrame]
    /\ UNCHANGED << req, netVars, sends, dispatches, restarts, startCalls,
                    connectResult, connectRead, greeting, lost >>

(* ---------------------------------------------------------------------- *)
(* Users of a Ready channel: run_command(&self, command)                   *)
(* ---------------------------------------------------------------------- *)
UserDispatch(p, c) ==
    /\ Settled
    /\ phase = "ready"
    /\ dispatches < MaxDispatches
    /\ fr[p].pc = "idle"
    /\ \A q \in Procs : fr[q].ctx # "restart"
    /\ dispatches' = dispatches + 1
    /\ fr' = [fr EXCEPT ![p] = BeginWrite(UserCommand(c), "user", max_buffer_size)]
    /\ UNCHANGED << cwsVars, connVars, netVars, sends, restarts, histVars, lost >>

UserFinish(p) ==
    /\ fr[p].pc = "done"
    /\ fr[p].ctx = "user"
    /\ prev' = [prev EXCEPT ![p] = Ended(fr[p])]
    /\ fr' = [fr EXCEPT ![p] = IdleFrame]
    /\ UNCHANGED << cwsVars, connVars, netVars, sends, dispatches, restarts,
                    startCalls, lastStart, connectResult, connectRead, greeting,
                    startMessage, lost >>

(* ---------------------------------------------------------------------- *)
(* Specification                                                           *)
(* ---------------------------------------------------------------------- *)
Next ==
    \/ \E ok \in BOOLEAN : TcpConnect(ok)
    \/ ConnectFinish
    \/ CwsStart
    \/ \E p \in Procs, m \in ChannelMode, pwlen \in PasswordLens : Restart(p, m, pwlen)
    \/ \E p \in Procs : StartFinish(p)
    \/ \E p \in Procs, c \in UserCommands : UserDispatch(p, c)
    \/ \E p \in Procs : UserFinish(p)
    \/ \E p \in Procs : WriteBuffered(p)
    \/ \E p \in Procs : WriteSocket(p)
    \/ \E p \in Procs : WriteError(p)
    \/ \E p \in Procs : ReadBuffered(p)
    \/ \E p \in Procs : ReadSocket(p)
    \/ \E p \in Procs : ReadEof(p)
    \/ \E p \in Procs : ReadError(p)
    \/ \E p \in Procs : Decode(p)
    \/ \E chunk \in ServerChunks : ServerSend(chunk)
    \/ ServerClose

Spec == Init /\ [][Next]_vars

(* ---------------------------------------------------------------------- *)
(* Specification with a responsive peer and no I/O errors                  *)
(* ---------------------------------------------------------------------- *)
(* The reply of the peer to a command line it has received: the start     *)
(* response of the mode asked for, or the lines a user command expects.   *)
ReplyTo(cmd) ==
    IF cmd.kind = "START"
    THEN IF cmd.mode = "search" THEN <<"S1", "NL">> ELSE <<"S2", "NL">>
    ELSE IF cmd.lines = 1 THEN <<"J", "NL">> ELSE <<"J", "NL", "J", "NL">>

(* The peer sends the greeting line when the connection opens. *)
ServerGreets ==
    /\ sends = 0
    /\ ServerSend(<<"C", "NL">>)

(* The peer replies, once, to a command whose whole line it has received. *)
ServerReplies(p) ==
    /\ fr[p].ctx \in {"start", "user"}
    /\ fr[p].pc = "read"
    /\ fr[p].delivered = fr[p].cmd.len
    /\ fr[p].readPolls = 0
    /\ rx = << >>
    /\ ServerSend(ReplyTo(fr[p].cmd))

(* A user that awaits each dispatch before issuing the next. *)
SerialDispatch(p, c) ==
    /\ \A q \in Procs : fr[q].pc = "idle"
    /\ UserDispatch(p, c)

(* The steps of the tasks.  No call on the socket fails, and read_line    *)
(* never finds read-ahead data in its buffer, as this peer sends nothing  *)
(* beyond the line awaited.                                                *)
ClientStep ==
    \/ TcpConnect(TRUE)
    \/ ConnectFinish
    \/ CwsStart
    \/ \E p \in Procs : StartFinish(p)
    \/ \E p \in Procs : UserFinish(p)
    \/ \E p \in Procs : WriteBuffered(p)
    \/ \E p \in Procs : WriteSocket(p)
    \/ \E p \in Procs : ReadSocket(p)
    \/ \E p \in Procs : Decode(p)

ServerStep ==
    \/ ServerGreets
    \/ \E p \in Procs : ServerReplies(p)

LiveNext ==
    \/ ClientStep
    \/ ServerStep
    \/ \E p \in Procs, c \in UserCommands : SerialDispatch(p, c)

(* The executor polls a task that can make a step; the peer sends what it *)
(* has to send.                                                            *)
LiveSpec ==
    /\ Init
    /\ [][LiveNext]_vars
    /\ WF_vars(ClientStep)
    /\ WF_vars(ServerStep)

(* ---------------------------------------------------------------------- *)
(* Properties                                                              *)
(* ---------------------------------------------------------------------- *)
IoFailures == {"WriteToStream", "ReadStream"}

(* C1: when connect and then start(M, credential) succeed, the recorded   *)
(* mode is M and max_buffer_size and protocol_version are the values      *)
(* encoded in the start response the dispatch read.                        *)
C1_StartAdoptsResponse ==
    lastStart = Ok =>
        /\ connectResult = Ok
        /\ mode = req.mode
        /\ startMessage # << >>
        /\ startMessage[1] \in StartSymbols
        /\ max_buffer_size = Encoded(startMessage[1]).max_buffer_size
        /\ protocol_version = Encoded(startMessage[1]).protocol_version

C1_Witness ==
    /\ lastStart = Ok
    /\ req.mode = "search"
    /\ startMessage = <<"S1", "NL">>
    /\ mode = "search"
    /\ protocol_version = 1
    /\ max_buffer_size = 20000

(* C2: a call of start on a channel whose mode is set fails with          *)
(* RunCommand, whatever mode and credential it asks for, and leaves mode, *)
(* max_buffer_size and protocol_version as they were.                      *)
C2_SecondStartRejected ==
    [][ (startCalls' = startCalls + 1 /\ mode # None) =>
            /\ lastStart' = "RunCommand"
            /\ mode' = mode
            /\ max_buffer_size' = max_buffer_size
            /\ protocol_version' = protocol_version ]_vars

C2_Witness ==
    /\ restarts = 1
    /\ lastStart = "RunCommand"
    /\ mode # None

(* C3: when the line connect reads does not begin with CONNECTED, connect *)
(* fails with ConnectToServer, no channel is returned and no start        *)
(* command is sent.                                                        *)
C3_BadGreetingRejected ==
    (connectRead = Ok /\ (greeting = << >> \/ greeting[1] # "C")) =>
        /\ connectResult = "ConnectToServer"
        /\ cwsResult = "ConnectToServer"
        /\ chan = "dropped"
        /\ phase = "failed"
        /\ startCalls = 0
        /\ \A p \in Procs : fr[p].pc # "write" /\ fr[p].delivered = 0

C3_Witness ==
    /\ connectRead = Ok
    /\ greeting = <<"J", "NL">>
    /\ connectResult = "ConnectToServer"

(* C4 (as claimed): every failure of the connect step is reported as      *)
(* ConnectToServer, also when no greeting line can be read.               *)
C4_ConnectFailsOnlyWithConnectToServer ==
    connectResult \notin {"pending", Ok} => connectResult = "ConnectToServer"

(* C5: in run_command a failed write is followed by no line read and no   *)
(* decode, and a failed read by no decode.                                 *)
C5_FailuresShortCircuit ==
    \A p \in Procs :
        fr[p].ctx \in {"start", "restart", "user"} =>
            /\ fr[p].wres = "WriteToStream" =>
                  /\ fr[p].pc = "done"
                  /\ fr[p].result = "WriteToStream"
                  /\ fr[p].readPolls = 0
                  /\ ~fr[p].decodeCalled
            /\ fr[p].rres = "ReadStream" =>
                  /\ fr[p].pc = "done"
                  /\ fr[p].result = "ReadStream"
                  /\ ~fr[p].decodeCalled

C5_Witness ==
    \E p, q \in Procs :
        /\ p # q
        /\ fr[p].ctx = "user" /\ fr[p].pc = "done"
        /\ fr[p].wres = Ok /\ fr[p].rres = "ReadStream"
        /\ fr[p].lines_read = 1 /\ fr[p].cmd.lines = 2
        /\ prev[q] = "failed"

(* C6 (as claimed): when write has returned success, every byte of the    *)
(* message has been delivered to the stream.                               *)
C6_WrittenMeansDelivered ==
    \A p \in Procs : fr[p].wres = Ok => fr[p].delivered = fr[p].cmd.len

(* C7 (as claimed): when the peer closes the stream before all the lines  *)
(* of a dispatch are read, the dispatch fails with ReadStream and decode  *)
(* is not called.                                                          *)
C7_EofFailsWithReadStream ==
    \A p \in Procs :
        (fr[p].ctx \in {"start", "restart", "user"} /\ fr[p].eof) =>
            /\ fr[p].pc # "decode"
            /\ ~fr[p].decodeCalled
            /\ fr[p].pc = "done" => fr[p].result = "ReadStream"

(* C8: once the mode is set, mode, max_buffer_size and protocol_version   *)
(* never change again, whatever is done with the channel.                  *)
C8_NegotiatedStateFrozen ==
    [][ mode # None =>
            /\ mode' = mode
            /\ max_buffer_size' = max_buffer_size
            /\ protocol_version' = protocol_version ]_vars

C8_Witness ==
    /\ mode # None
    /\ restarts = 1
    /\ lastStart = "RunCommand"
    /\ \E p, q \in Procs :
          /\ p # q
          /\ fr[p].ctx = "user" /\ fr[p].pc = "done" /\ fr[p].result = Ok
          /\ prev[q] = "failed"

(* C9: connect_with_start returns a channel whose mode is set, with the   *)
(* values of the start response, or the first failure of connect and      *)
(* start; when start fails after connect succeeded the channel is dropped. *)
C9_ReadyOrFirstFailure ==
    /\ cwsResult = Ok =>
          /\ chan = "live"
          /\ connectResult = Ok
          /\ mode # None
          /\ startMessage # << >>
          /\ startMessage[1] \in StartSymbols
          /\ max_buffer_size = Encoded(startMessage[1]).max_buffer_size
          /\ protocol_version = Encoded(startMessage[1]).protocol_version
    /\ cwsResult \notin {"pending", Ok} =>
          /\ chan # "live"
          /\ cwsResult = (IF connectResult # Ok THEN connectResult ELSE lastStart)
    /\ (connectResult = Ok /\ restarts = 0 /\ lastStart \notin {"none", "pending", Ok}) =>
          /\ chan = "dropped"
          /\ cwsResult = lastStart

C9_Witness ==
    /\ connectResult = Ok
    /\ lastStart = "DecodeFailure"
    /\ cwsResult = "DecodeFailure"
    /\ chan = "dropped"

(* C10 (as claimed): at most one command is outstanding on the stream at  *)
(* any time.                                                               *)
InFlight(p) ==
    fr[p].ctx \in {"start", "restart", "user"} /\ fr[p].pc \in {"write", "read", "decode"}

C10_OneCommandOutstanding ==
    Cardinality({p \in Procs : InFlight(p)}) <= 1

(* C10 (amended): for each task that awaits its dispatches one after the *)
(* other, no command is in flight (none of its message is written) before *)
(* the previous dispatch of that task has made all its READ_LINES_COUNT   *)
(* line reads or failed at the write or at a read; dispatches of          *)
(* different tasks may be in flight together.                              *)
C10_NextAfterPreviousReads ==
    \A p \in Procs :
        /\ InFlight(p) => prev[p] # "incomplete"
        /\ (fr[p].ctx \in {"start", "restart", "user"} /\ fr[p].pc \in {"decode", "done"}) =>
              \/ fr[p].result \in IoFailures
              \/ fr[p].wres = Ok /\ fr[p].lines_read = fr[p].cmd.lines

C10_Witness ==
    \E p \in Procs :
        /\ prev[p] = "complete"
        /\ fr[p].ctx = "user"
        /\ fr[p].pc = "read"
        /\ fr[p].delivered = fr[p].cmd.len
        /\ dispatches = 2
        /\ \A q \in Procs \ {p} : fr[q].ctx = "none" /\ prev[q] = "none"

(* C11: when the write and all the line reads of a dispatch succeed,      *)
(* run_command returns what command.receive returns for the accumulated   *)
(* text, a success as the success value and a decode failure with its     *)
(* kind unchanged; the dispatch of start takes the same path.              *)
C11_ReturnsWhatDecodeReturns ==
    \A p \in Procs :
        (/\ fr[p].ctx \in {"start", "restart", "user"}
         /\ fr[p].pc = "done"
         /\ fr[p].wres = Ok
         /\ fr[p].rres = Ok) =>
            /\ fr[p].decodeCalled
            /\ fr[p].result = Receive(fr[p].cmd, fr[p].message).result
            /\ fr[p].response = Receive(fr[p].cmd, fr[p].message).response
            /\ fr[p].result \in {Ok, "DecodeFailure"}

C11_Witness ==
    /\ lastStart = Ok
    /\ startMessage = <<"S2", "NL">>
    /\ \E p \in Procs :
          /\ fr[p].ctx = "user"
          /\ fr[p].pc = "done"
          /\ fr[p].cmd.lines = 1
          /\ fr[p].message = <<"C", "NL">>
          /\ fr[p].result = "DecodeFailure"

(* C12: nothing is retried.  One run_command offers every byte of its     *)
(* message to the stream at most once and reads at most READ_LINES_COUNT  *)
(* lines; once its write or its read has returned, the call writes and    *)
(* reads no more.  One connect_with_start makes at most one TCP connect,  *)
(* one greeting read and one start dispatch, whatever fails.               *)
C12_FrameBounds ==
    /\ startCalls - restarts <= 1
    /\ \A p \in Procs :
          /\ fr[p].delivered + fr[p].wbuf + fr[p].wrem <= fr[p].cmd.len
          /\ fr[p].lines_read <= fr[p].max_read_lines
          /\ fr[p].ctx \in {"start", "restart", "user"} =>
                fr[p].max_read_lines \in {0, fr[p].cmd.lines}
          /\ fr[p].ctx = "connect" => fr[p].max_read_lines = 1

C12_StepBounds ==
    /\ phase # "init" => phase' # "init"
    /\ (phase' = "connecting" /\ phase # "connecting") => phase = "init"
    /\ \A p \in Procs :
          /\ (fr'[p].ctx = "connect" /\ fr[p].ctx # "connect") =>
                (p = Main /\ phase = "init")
          /\ (fr'[p].ctx = "start" /\ fr[p].ctx # "start") =>
                (p = Main /\ startCalls = 0 /\ phase = "connected")
          /\ (fr[p].pc # "idle" /\ fr'[p].pc # "idle") =>
                /\ fr'[p].ctx = fr[p].ctx
                /\ fr'[p].cmd = fr[p].cmd
                /\ fr[p].wres # "pending" =>
                      (fr'[p].wres = fr[p].wres /\ fr'[p].delivered = fr[p].delivered)
                /\ fr[p].rres # "pending" =>
                      /\ fr'[p].rres = fr[p].rres
                      /\ fr'[p].lines_read = fr[p].lines_read
                      /\ fr'[p].readPolls = fr[p].readPolls
                      /\ fr'[p].message = fr[p].message

C12_NoRetry == []C12_FrameBounds /\ [][C12_StepBounds]_vars

C12_Witness ==
    /\ cwsResult = "ReadStream"
    /\ connectResult = Ok
    /\ startCalls = 1
    /\ lastStart = "ReadStream"
    /\ phase = "failed"
    /\ \A p \in Procs : fr[p].pc = "idle"

(* Number of line terminators in a text. *)
Terminators(text) == Cardinality({i \in 1..Len(text) : text[i] = "NL"})

(* C13 (as claimed): the text the read step hands to decode is exactly    *)
(* READ_LINES_COUNT terminated lines, never fewer and never more.          *)
C13_DecodeGetsExactlyNLines ==
    \A p \in Procs :
        (fr[p].ctx \in {"start", "restart", "user"} /\ fr[p].pc = "decode") =>
            /\ Terminators(fr[p].message) = fr[p].cmd.lines
            /\ fr[p].cmd.lines > 0 => fr[p].message[Len(fr[p].message)] = "NL"

(* C14: the channel a successful connect produces has mode unset,         *)
(* max_buffer_size 200 and protocol_version 1, whatever follows the       *)
(* CONNECTED token in the greeting; it stays so until start adopts a      *)
(* response.                                                               *)
C14_ConnectedDefaults ==
    (connectResult = Ok /\ lastStart \in {"none", "pending"}) =>
        /\ chan = "live"
        /\ phase \in {"connected", "starting"}
        /\ mode = None
        /\ max_buffer_size = 200
        /\ protocol_version = 1

C14_Witness ==
    /\ phase = "connected"
    /\ connectResult = Ok
    /\ greeting = <<"C", "NL">>
    /\ startCalls = 0
    /\ mode = None
    /\ max_buffer_size = 200

(* C15: the channel holds either (mode unset, 200, 1) or the three values *)
(* of one and the same start response; a start that fails at the write,   *)
(* at the read or at the decode leaves mode unset and the two defaults.   *)
C15_AdoptionIsAtomic ==
    /\ chan # "none" =>
          \/ /\ mode = None
             /\ max_buffer_size = 200
             /\ protocol_version = 1
          \/ \E s \in StartSymbols :
                /\ mode = Encoded(s).mode
                /\ max_buffer_size = Encoded(s).max_buffer_size
                /\ protocol_version = Encoded(s).protocol_version
    /\ (lastStart \in {"WriteToStream", "ReadStream", "DecodeFailure"}) =>
          /\ mode = None
          /\ max_buffer_size = 200
          /\ protocol_version = 1

C15_Witness ==
    /\ lastStart = "DecodeFailure"
    /\ req.mode = "search"
    /\ startMessage = <<"S2", "NL">>
    /\ mode = None
    /\ max_buffer_size = 200
    /\ protocol_version = 1

(* C16: the writer and the reader of a dispatch have the capacity         *)
(* max_buffer_size has at the time: 200 for the greeting read and for the *)
(* whole dispatch of start, the size the start response reported for      *)
(* every dispatch after a successful start.                                *)
C16_BuffersSizedByChannel ==
    \A p \in Procs :
        /\ fr[p].ctx = "connect" => fr[p].rcap = 200
        /\ fr[p].ctx \in {"start", "restart"} =>
              /\ fr[p].wcap = 200
              /\ fr[p].wres = Ok => fr[p].rcap = 200
        /\ fr[p].ctx = "user" =>
              /\ startMessage # << >>
              /\ startMessage[1] \in StartSymbols
              /\ fr[p].wcap = Encoded(startMessage[1]).max_buffer_size
              /\ fr[p].wres = Ok =>
                    fr[p].rcap = Encoded(startMessage[1]).max_buffer_size

C16_Witness ==
    /\ startMessage = <<"S2", "NL">>
    /\ \E p \in Procs :
          /\ fr[p].ctx = "user"
          /\ fr[p].pc = "read"
          /\ fr[p].wcap = 2
          /\ fr[p].rcap = 2
          /\ fr[p].readPolls > 0

(* C17 (as claimed): with a peer that greets and replies to every start   *)
(* line it receives, and no I/O errors, connect_with_start eventually     *)
(* returns.                                                                *)
C17_CwsEventuallyReturns == <>(cwsResult # "pending")

(* C18 (as claimed): a read of N lines takes from the stream nothing      *)
(* beyond those lines; what the peer sent after the N-th terminator stays *)
(* available to the next read and is never lost.                           *)
C18_NothingReadAheadIsLost == lost = FALSE

(* C19: a call of start rejected with RunCommand because the mode is set  *)
(* does no I/O: nothing is written to the stream, nothing is read from    *)
(* it, and what the next dispatch finds on the stream is unchanged.       *)
C19_RejectedStartDoesNoIo ==
    [][ (startCalls' = startCalls + 1 /\ mode # None) =>
            /\ fr' = fr
            /\ rx' = rx
            /\ peerClosed' = peerClosed
            /\ lost' = lost
            /\ sends' = sends ]_vars

C19_Witness ==
    /\ restarts = 1
    /\ lastStart = "RunCommand"
    /\ dispatches = 0
    /\ rx = <<"J", "NL">>
    /\ \A p \in Procs : fr[p].pc = "idle"

=============================================================================
